---- MODULE Spec2Model ----
(***************************************************************************)
(* Team formation engine of utils/team_formations/team_formations.py:      *)
(* preprocess_data, compute_weighted_score, assign_groups.                 *)
(*                                                                         *)
(* A table (pandas DataFrame) is a function from the RangeIndex 0..n-1 to  *)
(* rows; a row is a function from column names to values, so a column is   *)
(* present exactly when its name is in the row's DOMAIN.                   *)
(*                                                                         *)
(* Scores are Python floats in the source.  Here a score is an integer in  *)
(* units of 1/(ScoreDen*Scale): each of the four components is the real    *)
(* value cut to the grid 0..Scale and the weights are tenths.              *)
(***************************************************************************)
EXTENDS Integers, Sequences, FiniteSets, TLC

\* ------------------------------------------------------------------ bounds
MaxN == 4          \* largest cohort (rows of contestants.csv)
MaxTeams == 3      \* largest num_teams a config asks for
MaxTeamSize == 2   \* largest team_size a config asks for
Scale == 1000      \* resolution of a score component
MaxPieces == 3     \* most comma-separated pieces of a cell, or tokens of a list

\* ------------------------------------------------------- program constants
skill_weight == 4          \* 0.4, in tenths
interest_weight == 3       \* 0.3
exp_weight == 2            \* 0.2
personality_weight == 1    \* 0.1
ScoreDen == 10             \* the weights are tenths
Beginner == 1
Intermediate == 2
Expert == 3
DefaultNumTeams == 3       \* project_requirements.get('num_teams', 3)
DefaultTeamSize == 3       \* project_requirements.get('team_size', 3)

\* A cell of a float column is the empty tuple when it is missing (nan) and
\* the one-element tuple of its value otherwise; astype(int) unwraps it.
NaN == <<>>
Float(x) == <<x>>
AsInt(cell) == cell[1]

\* ----------------------------------------------------------------- helpers
Min(a, b) == IF a <= b THEN a ELSE b
Max(a, b) == IF a >= b THEN a ELSE b

Range(s) == {s[j] : j \in 1..Len(s)}

RECURSIVE Ascending(_)
\* the elements of a finite set of integers, smallest first
Ascending(S) ==
    IF S = {} THEN <<>>
    ELSE LET m == CHOOSE x \in S : \A y \in S : x <= y
         IN  <<m>> \o Ascending(S \ {m})

RECURSIVE Flatten(_)
\* sum(teams, []): the concatenation of a list of lists
Flatten(ls) == IF ls = <<>> THEN <<>> ELSE Head(ls) \o Flatten(Tail(ls))

RECURSIVE SumSeq(_)
SumSeq(s) == IF s = <<>> THEN 0 ELSE Head(s) + SumSeq(Tail(s))

RECURSIVE ISqrtFrom(_, _)
\* Newton's iteration for the integer square root, from a guess x >= sqrt(n)
ISqrtFrom(n, x) ==
    LET y == (x + (n \div x)) \div 2
    IN  IF y >= x THEN x ELSE ISqrtFrom(n, y)

\* floor(sqrt(n)) for n >= 0
ISqrt(n) == IF n = 0 THEN 0 ELSE ISqrtFrom(n, n)

\* Strip with only the leading whitespace removed (str.lstrip)
StripLeading(token) ==
    CASE token = " ml" -> "ml"
      [] token = " web" -> "web"
      [] token = " ai " -> "ai "
      [] token = " " -> ""
      [] OTHER -> token

\* str.strip() on the tokens the model uses: a padded token loses its
\* padding, a blank token becomes the empty string
Strip(token) ==
    CASE token = " ml" -> "ml"
      [] token = "python " -> "python"
      [] token = " web" -> "web"
      [] token = " ai " -> "ai"
      [] token = " " -> ""
      [] OTHER -> token

\* ------------------------------------------------------------ preprocess_data
\* A raw cell of the Skills or Interests column: a str, held as the sequence
\* of its comma-separated pieces (value.split(',')), or an empty CSV cell,
\* which read_csv loads as a float nan, or a list of tokens.
Str(pieces) == [isstr |-> TRUE, islist |-> FALSE, pieces |-> pieces]
NaNCell == [isstr |-> FALSE, islist |-> FALSE, pieces |-> <<>>]
List(tokens) == [isstr |-> FALSE, islist |-> TRUE, pieces |-> tokens]

RECURSIVE StripNonEmpty(_)
\* [token.strip() for token in pieces if token.strip()]
StripNonEmpty(pieces) ==
    IF pieces = <<>> THEN <<>>
    ELSE (IF Strip(Head(pieces)) # "" THEN <<Strip(Head(pieces))>> ELSE <<>>)
         \o StripNonEmpty(Tail(pieces))

\* lines 33-38: a list's tokens are stripped and filtered like a str's
\* pieces, but a list is not split at commas
normalize_list_field(value) ==
    IF value.isstr THEN StripNonEmpty(value.pieces)
    ELSE IF value.islist THEN StripNonEmpty(value.pieces)
    ELSE <<>>

\* experience_map with the unmapped levels filled with 1
experience_map_fill_low(level) ==
    CASE level = "Beginner" -> Beginner
      [] level = "Intermediate" -> Intermediate
      [] level = "Expert" -> Expert
      [] OTHER -> Beginner

\* experience_map, then fillna(2).astype(int)
experience_map(level) ==
    CASE level = "Beginner" -> Beginner
      [] level = "Intermediate" -> Intermediate
      [] level = "Expert" -> Expert
      [] OTHER -> Intermediate

\* LabelEncoder sorts the distinct labels; these are the labels in that order
PersonalityOrder == <<"Analytical", "Collaborative", "Creative", "Leader">>

PersonalityRank(label) ==
    CHOOSE j \in 1..Len(PersonalityOrder) : PersonalityOrder[j] = label

\* LabelEncoder.fit_transform: the position of a label among the sorted
\* distinct labels of the column
LabelEncode(table, label) ==
    Cardinality({PersonalityRank(table[p].PersonalityTrait) : p \in DOMAIN table}
                \cap 1..(PersonalityRank(label) - 1))

\* the copy of the table preprocess_data returns (its first result)
preprocess_data(table) ==
    [p \in DOMAIN table |->
        [Name |-> table[p].Name,
         Skills |-> normalize_list_field(table[p].Skills),
         Interests |-> normalize_list_field(table[p].Interests),
         ExperienceLevel |-> experience_map(table[p].ExperienceLevel),
         PersonalityTrait |-> LabelEncode(table, table[p].PersonalityTrait)]]

\* the feature matrix (its second result): a multi-hot row is the set of the
\* classes it marks
Features(table) ==
    [p \in DOMAIN table |->
        [skills |-> Range(table[p].Skills),
         interests |-> Range(table[p].Interests),
         ExperienceLevel |-> table[p].ExperienceLevel,
         PersonalityTrait |-> table[p].PersonalityTrait]]

\* ---------------------------------------------------- compute_weighted_score
\* project_requirements.get(key, default)
Get(project_requirements, key, default) ==
    IF key \in DOMAIN project_requirements THEN project_requirements[key]
    ELSE default

\* TeamUnion with only the first member looked at
TeamUnionFirst(team, data, column) ==
    IF team = <<>> THEN {} ELSE Range(data[Head(team)][column])

RECURSIVE TeamUnion(_, _, _)
\* for idx in team: acc.update(data.loc[idx][column])
TeamUnion(team, data, column) ==
    IF team = <<>> THEN {}
    ELSE Range(data[Head(team)][column]) \cup TeamUnion(Tail(team), data, column)

\* MatchRatio with every entry of the list counted, over the distinct entries
MatchRatioPerEntry(wanted, have) ==
    IF wanted # <<>>
    THEN (Scale * Cardinality({j \in 1..Len(wanted) : wanted[j] \in have}))
         \div Cardinality(Range(wanted))
    ELSE 0

\* len(set(wanted).intersection(have)) / len(wanted) if wanted else 0
MatchRatio(wanted, have) ==
    IF wanted # <<>>
    THEN (Scale * Cardinality(Range(wanted) \cap have)) \div Len(wanted)
    ELSE 0

\* data.loc[list(team), column]
Column(team, data, column) == [j \in 1..Len(team) |-> data[team[j]][column]]

\* ExpBalance with the sample standard deviation (ddof=1) for np.std
ExpBalanceSample(exp_scores) ==
    LET n == Len(exp_scores)
        s == SumSeq(exp_scores)
        q == SumSeq([j \in 1..n |-> exp_scores[j] * exp_scores[j]])
    IN  IF n > 1 /\ s > 0
        THEN Max(0, Min(Scale, Scale - ISqrt((Scale * Scale * (n * q - s * s) * n)
                                                \div (s * s * (n - 1)))))
        ELSE 0

\* 1 - np.std(exp_scores)/np.mean(exp_scores), clamped to [0,1]; with n
\* values of sum s and sum of squares q, std/mean = sqrt(n*q - s*s)/s
ExpBalance(exp_scores) ==
    LET n == Len(exp_scores)
        s == SumSeq(exp_scores)
        q == SumSeq([j \in 1..n |-> exp_scores[j] * exp_scores[j]])
    IN  IF n > 1 /\ s > 0
        THEN Max(0, Min(Scale, Scale - ISqrt((Scale * Scale * (n * q - s * s)) \div (s * s))))
        ELSE 0

\* len(set(personalities)) / len(personalities) if personalities.size > 0 else 0
PersonalityDiversity(personalities) ==
    IF Len(personalities) > 0
    THEN (Scale * Cardinality(Range(personalities))) \div Len(personalities)
    ELSE 0

\* the four terms of compute_weighted_score, each in units of 1/Scale
ScoreComponents(team, project_requirements, data) ==
    LET required_skills ==
            StripNonEmpty(Get(project_requirements, "required_skills", <<>>))
        preferred_interests ==
            StripNonEmpty(Get(project_requirements, "preferred_interests", <<>>))
    IN  [skill_match |-> MatchRatio(required_skills, TeamUnion(team, data, "Skills")),
         interest_match |->
             MatchRatio(preferred_interests, TeamUnion(team, data, "Interests")),
         exp_balance |-> ExpBalance(Column(team, data, "ExperienceLevel")),
         personality_diversity |->
             PersonalityDiversity(Column(team, data, "PersonalityTrait"))]

\* compute_weighted_score with the weights of the skill and interest terms
\* exchanged
compute_weighted_score_swapped(team, project_requirements, data) ==
    LET required_skills ==
            StripNonEmpty(Get(project_requirements, "required_skills", <<>>))
        skill_match == MatchRatio(required_skills, TeamUnion(team, data, "Skills"))
        preferred_interests ==
            StripNonEmpty(Get(project_requirements, "preferred_interests", <<>>))
        interest_match ==
            MatchRatio(preferred_interests, TeamUnion(team, data, "Interests"))
        exp_balance == ExpBalance(Column(team, data, "ExperienceLevel"))
        personality_diversity ==
            PersonalityDiversity(Column(team, data, "PersonalityTrait"))
    IN  interest_weight * skill_match + skill_weight * interest_match
        + exp_weight * exp_balance + personality_weight * personality_diversity

\* the score, lines 70-105, in units of 1/(ScoreDen * Scale)
compute_weighted_score(team, project_requirements, data) ==
    LET required_skills ==
            StripNonEmpty(Get(project_requirements, "required_skills", <<>>))
        skill_match == MatchRatio(required_skills, TeamUnion(team, data, "Skills"))
        preferred_interests ==
            StripNonEmpty(Get(project_requirements, "preferred_interests", <<>>))
        interest_match ==
            MatchRatio(preferred_interests, TeamUnion(team, data, "Interests"))
        exp_balance == ExpBalance(Column(team, data, "ExperienceLevel"))
        personality_diversity ==
            PersonalityDiversity(Column(team, data, "PersonalityTrait"))
    IN  skill_weight * skill_match + interest_weight * interest_match
        + exp_weight * exp_balance + personality_weight * personality_diversity

\* ------------------------------------------------------------- assign_groups
RECURSIVE Combinations(_, _)
\* itertools.combinations(s, r) for r >= 0, in the order it yields them
Combinations(s, r) ==
    IF r = 0 THEN << <<>> >>
    ELSE IF Len(s) < r THEN <<>>
    ELSE LET rest == Combinations(Tail(s), r - 1)
         IN  [j \in 1..Len(rest) |-> <<Head(s)>> \o rest[j]]
             \o Combinations(Tail(s), r)

\* Consider with the first candidate kept for good
ConsiderFirstOnly(best, candidate, project_requirements, data) ==
    IF best[2] < 0
    THEN <<candidate, compute_weighted_score(candidate, project_requirements, data)>>
    ELSE best

\* Consider with >= for >: a later candidate of equal score replaces the best
ConsiderLatest(best, candidate, project_requirements, data) ==
    LET score == compute_weighted_score(candidate, project_requirements, data)
    IN  IF score >= best[2] THEN <<candidate, score>> ELSE best

\* lines 127-130, one pass of the inner loop: best is <<best_team, best_score>>
Consider(best, candidate, project_requirements, data) ==
    LET score == compute_weighted_score(candidate, project_requirements, data)
    IN  IF score > best[2] THEN <<candidate, score>> ELSE best

RECURSIVE LoopOver(_, _, _, _, _, _)
\* the loop of lines 126-130 over combos[lo..hi], entered with best: the
\* passes over the first half, then (a best_score is a number, and testing
\* that makes TLC finish the first half before it starts the second) those
\* over the second
LoopOver(combos, lo, hi, best, project_requirements, data) ==
    IF lo > hi THEN best
    ELSE IF lo = hi THEN Consider(best, combos[lo], project_requirements, data)
    ELSE LET mid == (lo + hi) \div 2
             first == LoopOver(combos, lo, mid, best, project_requirements, data)
         IN  IF first[2] \in Int
             THEN LoopOver(combos, mid + 1, hi, first, project_requirements, data)
             ELSE first

\* ClusterIndices without the test of line 121: every row of the frame
ClusterIndicesAll(data, cluster) == Ascending(DOMAIN data)

\* ClusterIndices with <= for ==
ClusterIndicesUpTo(data, cluster) ==
    Ascending({p \in DOMAIN data : data[p].InitialCluster <= cluster})

\* data[data['InitialCluster'] == cluster].index: the rows of a cluster, in
\* table order
ClusterIndices(data, cluster) ==
    Ascending({p \in DOMAIN data : data[p].InitialCluster = cluster})

\* best_team of one cluster: best_team = [], best_score = -1, then the loop
\* BestTeam with best_score starting at the highest score there is, which no
\* combination beats
BestTeamFromTop(cluster_indices, size, project_requirements, data) ==
    LET combos == Combinations(cluster_indices, size)
    IN  LoopOver(combos, 1, Len(combos), <<<<>>, ScoreDen * Scale>>,
                 project_requirements, data)[1]

BestTeam(cluster_indices, size, project_requirements, data) ==
    LET combos == Combinations(cluster_indices, size)
    IN  LoopOver(combos, 1, Len(combos), <<<<>>, 0 - ScoreDen * Scale>>,
                 project_requirements, data)[1]

RECURSIVE ProbeInsert(_, _, _)
\* CPython's set_add_entry on a table of 8 slots holding small ints: slot
\* hash & 7, and on a collision slot (5*slot + 1) & 7
ProbeInsert(table, x, slot) ==
    IF table[slot] = <<>> THEN [table EXCEPT ![slot] = <<x>>]
    ELSE ProbeInsert(table, x, (5 * slot + 1) % 8)

RECURSIVE InsertAll(_, _)
InsertAll(table, xs) ==
    IF xs = <<>> THEN table
    ELSE InsertAll(ProbeInsert(table, Head(xs), Head(xs) % 8), Tail(xs))

\* list(set(index) - assigned) as CPython builds and walks it, for an index
\* 0..n-1 with n <= 32: the difference is filled in ascending order; with
\* few members of assigned it is a copy of set(index), and from five
\* entries on it is rehashed into 32 slots, both walked in ascending order;
\* otherwise it is walked in the slot order of its 8-slot table.
SetDifferenceList(index, assigned) ==
    LET left == Ascending(index \ assigned)
        table == InsertAll([slot \in 0..7 |-> <<>>], left)
    IN  IF (Cardinality(index) \div 4) > Cardinality(assigned) \/ Len(left) >= 5
        THEN left
        ELSE Flatten([j \in 1..8 |-> table[j - 1]])

\* KMeans(n_clusters=k, random_state=42, n_init=10).fit_predict(features).
\* scikit-learn is not part of the repository: a fit is any labelling with
\* labels in 0..k-1 that gives equal feature rows the same label and uses
\* as many labels as there are distinct rows, up to k (with fewer distinct
\* rows than clusters, the other clusters come back empty).
KMeansFits(features, k) ==
    {labels \in [DOMAIN features -> 0..(k - 1)] :
        /\ \A p, q \in DOMAIN features :
              features[p] = features[q] => labels[p] = labels[q]
        /\ Cardinality({labels[p] : p \in DOMAIN features})
              = Min(k, Cardinality({features[p] : p \in DOMAIN features}))}

\* data[column] = values
WithColumn(data, column, values) ==
    [p \in DOMAIN data |-> (column :> values[p]) @@ data[p]]

\* DropColumn that drops nothing
DropColumnNone(data, column) == data

\* data.drop(columns=[column])
DropColumn(data, column) ==
    [p \in DOMAIN data |->
        [c \in (DOMAIN data[p]) \ {column} |-> data[p][c]]]

RECURSIVE GroupAfterZeroBased(_, _, _, _)
\* GroupAfter with the teams numbered from 0
GroupAfterZeroBased(teams, group_id, p, cell) ==
    IF group_id > Len(teams) THEN cell
    ELSE GroupAfterZeroBased(teams, group_id + 1, p,
                             IF p \in Range(teams[group_id])
                             THEN Float(group_id - 1) ELSE cell)

RECURSIVE GroupAfter(_, _, _, _)
\* the Group cell of row p after the loop of lines 142-143 has run over
\* teams[group_id..]: each team containing p overwrites the cell
GroupAfter(teams, group_id, p, cell) ==
    IF group_id > Len(teams) THEN cell
    ELSE GroupAfter(teams, group_id + 1, p,
                    IF p \in Range(teams[group_id]) THEN Float(group_id) ELSE cell)

\* lines 148-149: integer labels if no Group cell is missing
GroupAsInt(data) ==
    IF \A p \in DOMAIN data : data[p].Group # NaN
    THEN [p \in DOMAIN data |-> [data[p] EXCEPT !.Group = AsInt(@)]]
    ELSE data

\* NumGroups without the cap at the number of rows
NumGroupsUncapped(project_requirements, n) ==
    Max(1, Get(project_requirements, "num_teams", DefaultNumTeams))

\* lines 110-111: the number of clusters for a table of n rows
NumGroups(project_requirements, n) ==
    Max(1, Min(Get(project_requirements, "num_teams", DefaultNumTeams), n))

\* ---------------------------------------------------------------- the inputs
\* rows a contestants.csv may hold (without the Name)
Profiles ==
    { [Skills |-> Str(<<"python", " ml">>), Interests |-> Str(<<"ai">>),
       ExperienceLevel |-> "Beginner", PersonalityTrait |-> "Leader"],
      [Skills |-> Str(<<"design", " ">>), Interests |-> Str(<<" web">>),
       ExperienceLevel |-> "Expert", PersonalityTrait |-> "Creative"],
      [Skills |-> NaNCell, Interests |-> Str(<<"ai", "web">>),
       ExperienceLevel |-> "Guru", PersonalityTrait |-> "Analytical"] }

\* the tables load_contestant_data may return: 1..MaxN rows, RangeIndex
Cohorts ==
    UNION {{[p \in 0..(n - 1) |-> [Name |-> <<"C", p + 1>>] @@ rows[p]] :
               rows \in [0..(n - 1) -> Profiles]} : n \in 1..MaxN}

\* the required_skills / preferred_interests lists a project_config.json
\* may hold: none, plain, and one with repeated, padded and blank entries
Wanted ==
    { [required_skills |-> <<>>, preferred_interests |-> <<>>],
      [required_skills |-> <<"python", "design">>, preferred_interests |-> <<"ai">>],
      [required_skills |-> <<"python ", "python", " ", "ml">>,
       preferred_interests |-> <<"web", "web">>] }

TeamSizes == {0 - 1} \cup 0..MaxTeamSize

EmptyConfig == [key \in {} |-> 0]

\* the configs load_project_requirements may return: every num_teams and
\* team_size with each pair of non-empty requirement lists, and the empty
\* config, whose requirement lists default to the empty ones
Configs ==
    {[num_teams |-> nt, team_size |-> ts] @@ w :
        nt \in 0..MaxTeams, ts \in TeamSizes,
        w \in {x \in Wanted : x.required_skills # <<>>}}
    \cup {EmptyConfig}

EmptyTable == [p \in {} |-> 0]

\* generate_synthetic_dataset(12) of validate_team_formations.py (random.seed(42))
Row(n, skills, interests, experience, personality) ==
    [Name |-> <<"C", n>>, Skills |-> Str(skills), Interests |-> Str(interests),
     ExperienceLevel |-> experience, PersonalityTrait |-> personality]

SyntheticRows ==
    << Row(1, <<"devops", "python">>, <<"ai">>, "Beginner", "Analytical"),
       Row(2, <<"cloud", "javascript">>, <<"gaming">>, "Beginner", "Creative"),
       Row(3, <<"cloud", "javascript", "python">>, <<"ai">>, "Beginner", "Leader"),
       Row(4, <<"backend", "ml">>, <<"ai", "finance">>, "Beginner", "Collaborative"),
       Row(5, <<"data", "design", "python">>, <<"ai", "health">>, "Intermediate", "Analytical"),
       Row(6, <<"javascript", "product">>, <<"finance">>, "Intermediate", "Creative"),
       Row(7, <<"cloud", "product">>, <<"finance", "web">>, "Intermediate", "Leader"),
       Row(8, <<"data", "javascript">>, <<"education", "gaming">>, "Intermediate", "Collaborative"),
       Row(9, <<"javascript", "ml", "ux">>, <<"education">>, "Expert", "Analytical"),
       Row(10, <<"devops", "javascript">>, <<"web">>, "Expert", "Creative"),
       Row(11, <<"devops", "frontend", "product">>, <<"health">>, "Expert", "Leader"),
       Row(12, <<"ai", "devops", "ml">>, <<"gaming">>, "Expert", "Collaborative") >>

SyntheticCohort == [p \in 0..(Len(SyntheticRows) - 1) |-> SyntheticRows[p + 1]]

\* the config write_inputs of validate_team_formations.py writes
SyntheticConfig ==
    [num_teams |-> 3, team_size |-> 4,
     required_skills |-> <<"python", "frontend", "design", "ml">>,
     preferred_interests |-> <<"ai", "web">>]

\* The fits tried for the synthetic cohort: those of KMeansFits that label
\* three runs of consecutive rows (rows 0..a-1, a..b-1 and b..n-1).
BlockFits(features, k) ==
    LET n == Cardinality(DOMAIN features)
    IN  {labels \in
            {[p \in DOMAIN features |-> IF p < a THEN x ELSE IF p < b THEN y ELSE z] :
                a \in 0..n, b \in 0..n, x \in 0..(k - 1), y \in 0..(k - 1), z \in 0..(k - 1)} :
            /\ \A p, q \in DOMAIN features :
                  features[p] = features[q] => labels[p] = labels[q]
            /\ Cardinality({labels[p] : p \in DOMAIN features})
                  = Min(k, Cardinality({features[p] : p \in DOMAIN features}))}

\* every ordering of a list without repeats
Orderings(team) ==
    {[j \in 1..Len(team) |-> team[f[j]]] :
        f \in {g \in [1..Len(team) -> 1..Len(team)] :
                  \A a, b \in 1..Len(team) : g[a] = g[b] => a = b}}

\* the lists of distinct rows of a table: what a caller may pass as a team
TeamsOf(table) ==
    UNION {Orderings(Ascending(S)) : S \in SUBSET DOMAIN table}

\* ------------------------------------------------------------------ the state
VARIABLES
    pc,            \* the phase of the run
    raw,           \* the table load_contestant_data returned
    config,        \* project_requirements
    data,          \* the frame preprocess_data returned, which assign_groups changes in place
    features,      \* the feature matrix
    fit,           \* what the seeded KMeans returns for this feature matrix, once known
    num_groups,    \* assign_groups' locals
    team_size,
    teams,
    cluster,       \* the for loop's variable of line 120: clusters done so far
    unassigned,
    i,             \* the for loop's variable of line 137: leftovers placed so far
    result,        \* the frame assign_groups returned
    run,           \* the number of the run of the pipeline on these inputs
    prev,          \* what the run before this one ended with
    team,          \* a call of compute_weighted_score on its own: its argument,
    score,         \* what it returned,
    prev_score,    \* what the call before it returned,
    components,    \* and the four terms it summed
    feedback_file, \* what this run of main wrote to team_feedback.csv
    output_file,   \* and to contestants_with_groups.csv
    found          \* the cluster searches run apart: what each has found so far

pipelineVars == <<data, features, fit, num_groups, team_size, teams, cluster,
                  unassigned, i, result>>
rerunVars == <<run, prev>>
scoreVars == <<team, score, prev_score, components>>
outputVars == <<feedback_file, output_file>>
vars == <<pc, raw, config, pipelineVars, rerunVars, scoreVars, outputVars, found>>

\* ------------------------------------------------------------- the phases
None == <<>>
Some(x) == <<x>>

Idle ==
    /\ pc = "idle"
    /\ data = EmptyTable
    /\ features = EmptyTable
    /\ fit = None
    /\ num_groups = 0
    /\ team_size = 0
    /\ teams = <<>>
    /\ cluster = 0
    /\ unassigned = <<>>
    /\ i = 0
    /\ result = EmptyTable
    /\ run = 1
    /\ prev = None
    /\ team = <<>>
    /\ score = None
    /\ prev_score = None
    /\ components = None
    /\ feedback_file = None
    /\ output_file = None
    /\ found = EmptyTable

Init ==
    /\ raw \in Cohorts
    /\ config \in Configs
    /\ Idle

\* main, line 185
Preprocess ==
    /\ pc = "idle"
    /\ data' = preprocess_data(raw)
    /\ features' = Features(preprocess_data(raw))
    /\ pc' = "encoded"
    /\ UNCHANGED <<raw, config, fit, num_groups, team_size, teams, cluster,
                   unassigned, i, result, rerunVars, scoreVars, outputVars, found>>

\* assign_groups, lines 110-119, with Fits the fits the seeded KMeans may
\* return; a second fit of the same matrix with the same seed returns the same
ClusterUsing(Fits(_, _)) ==
    /\ pc = "encoded"
    /\ num_groups' = NumGroups(config, Cardinality(DOMAIN data))
    /\ team_size' = Get(config, "team_size", DefaultTeamSize)
    /\ IF fit = None
       THEN \E labels \in Fits(features, NumGroups(config, Cardinality(DOMAIN data))) :
               fit' = Some(labels)
       ELSE fit' = fit
    /\ data' = WithColumn(data, "InitialCluster", fit'[1])
    /\ teams' = <<>>
    /\ cluster' = 0
    /\ pc' = "clustered"
    /\ UNCHANGED <<raw, config, features, unassigned, i, result, rerunVars, scoreVars, outputVars, found>>

Cluster == ClusterUsing(KMeansFits)

\* Optimize with a team one row short of min(team_size, cluster size)
OptimizeOneShort ==
    /\ pc \in {"clustered", "optimized"}
    /\ cluster < num_groups
    /\ LET cluster_indices == ClusterIndices(data, cluster)
           size == Min(team_size, Len(cluster_indices))
       IN  /\ size >= 0
           /\ teams' = Append(teams, BestTeam(cluster_indices, Max(0, size - 1), config, data))
    /\ cluster' = cluster + 1
    /\ pc' = "optimized"
    /\ UNCHANGED <<raw, config, data, features, fit, num_groups, team_size,
                   unassigned, i, result, rerunVars, scoreVars, outputVars, found>>

\* one pass of the loop of lines 120-132
Optimize ==
    /\ pc \in {"clustered", "optimized"}
    /\ cluster < num_groups
    /\ LET cluster_indices == ClusterIndices(data, cluster)
           size == Min(team_size, Len(cluster_indices))
       IN  /\ size >= 0
           /\ teams' = Append(teams, BestTeam(cluster_indices, size, config, data))
    /\ cluster' = cluster + 1
    /\ pc' = "optimized"
    /\ UNCHANGED <<raw, config, data, features, fit, num_groups, team_size,
                   unassigned, i, result, rerunVars, scoreVars, outputVars, found>>

\* line 126 with a negative size: combinations raises ValueError, which
\* nothing catches
OptimizeRaises ==
    /\ pc \in {"clustered", "optimized"}
    /\ cluster < num_groups
    /\ Min(team_size, Len(ClusterIndices(data, cluster))) < 0
    /\ pc' = "crashed"
    /\ UNCHANGED <<raw, config, pipelineVars, rerunVars, scoreVars, outputVars, found>>

\* Collect with a leftover order that changes from one run to the next
CollectSalted ==
    /\ pc \in {"clustered", "optimized"}
    /\ cluster = num_groups
    /\ LET left == SetDifferenceList(DOMAIN data, Range(Flatten(teams)))
       IN  unassigned' = IF run = 2
                         THEN [j \in 1..Len(left) |-> left[Len(left) + 1 - j]]
                         ELSE left
    /\ i' = 0
    /\ pc' = "overflow"
    /\ UNCHANGED <<raw, config, data, features, fit, num_groups, team_size, teams,
                   cluster, result, rerunVars, scoreVars, outputVars, found>>

\* Collect as soon as one cluster's team has been chosen
CollectEarly ==
    /\ pc \in {"clustered", "optimized"}
    /\ cluster >= 1
    /\ unassigned' = SetDifferenceList(DOMAIN data, Range(Flatten(teams)))
    /\ i' = 0
    /\ pc' = "overflow"
    /\ UNCHANGED <<raw, config, data, features, fit, num_groups, team_size, teams,
                   cluster, result, rerunVars, scoreVars, outputVars, found>>

\* lines 135-136
Collect ==
    /\ pc \in {"clustered", "optimized"}
    /\ cluster = num_groups
    /\ unassigned' = SetDifferenceList(DOMAIN data, Range(Flatten(teams)))
    /\ i' = 0
    /\ pc' = "overflow"
    /\ UNCHANGED <<raw, config, data, features, fit, num_groups, team_size, teams,
                   cluster, result, rerunVars, scoreVars, outputVars, found>>

\* AssignRemaining with the round starting at the second team
AssignRemainingFromSecond ==
    /\ pc = "overflow"
    /\ i < Len(unassigned)
    /\ teams' = [teams EXCEPT ![((i + 1) % Len(teams)) + 1] = Append(@, unassigned[i + 1])]
    /\ i' = i + 1
    /\ UNCHANGED <<pc, raw, config, data, features, fit, num_groups, team_size,
                   cluster, unassigned, result, rerunVars, scoreVars, outputVars, found>>

\* AssignRemaining with every leftover appended to the first team
AssignRemainingFirst ==
    /\ pc = "overflow"
    /\ i < Len(unassigned)
    /\ teams' = [teams EXCEPT ![1] = Append(@, unassigned[i + 1])]
    /\ i' = i + 1
    /\ UNCHANGED <<pc, raw, config, data, features, fit, num_groups, team_size,
                   cluster, unassigned, result, rerunVars, scoreVars, outputVars, found>>

\* AssignRemaining with the leftover put in the place of the team's members
AssignRemainingReplaces ==
    /\ pc = "overflow"
    /\ i < Len(unassigned)
    /\ teams' = [teams EXCEPT ![(i % Len(teams)) + 1] = <<unassigned[i + 1]>>]
    /\ i' = i + 1
    /\ UNCHANGED <<pc, raw, config, data, features, fit, num_groups, team_size,
                   cluster, unassigned, result, rerunVars, scoreVars, outputVars, found>>

\* AssignRemaining with the teams taken from the last to the first
AssignRemainingReversed ==
    /\ pc = "overflow"
    /\ i < Len(unassigned)
    /\ teams' = [teams EXCEPT ![Len(teams) - (i % Len(teams))] =
                                  Append(@, unassigned[i + 1])]
    /\ i' = i + 1
    /\ UNCHANGED <<pc, raw, config, data, features, fit, num_groups, team_size,
                   cluster, unassigned, result, rerunVars, scoreVars, outputVars, found>>

\* one pass of the loop of lines 137-138
AssignRemaining ==
    /\ pc = "overflow"
    /\ i < Len(unassigned)
    /\ teams' = [teams EXCEPT ![(i % Len(teams)) + 1] = Append(@, unassigned[i + 1])]
    /\ i' = i + 1
    /\ UNCHANGED <<pc, raw, config, data, features, fit, num_groups, team_size,
                   cluster, unassigned, result, rerunVars, scoreVars, outputVars, found>>

\* lines 141-143
AssignGroupNumbers ==
    /\ pc = "overflow"
    /\ i = Len(unassigned)
    /\ data' = WithColumn(data, "Group",
                          [p \in DOMAIN data |-> GroupAfter(teams, 1, p, NaN)])
    /\ pc' = "merged"
    /\ UNCHANGED <<raw, config, features, fit, num_groups, team_size, teams,
                   cluster, unassigned, i, result, rerunVars, scoreVars, outputVars, found>>

\* lines 146-150: the returned frame is a new one, without InitialCluster
Return ==
    /\ pc = "merged"
    /\ result' = GroupAsInt(DropColumn(data, "InitialCluster"))
    /\ pc' = "done"
    /\ UNCHANGED <<raw, config, data, features, fit, num_groups, team_size, teams,
                   cluster, unassigned, i, rerunVars, scoreVars, outputVars, found>>

Next ==
    \/ Preprocess
    \/ Cluster
    \/ Optimize
    \/ OptimizeRaises
    \/ Collect
    \/ AssignRemaining
    \/ AssignGroupNumbers
    \/ Return

Spec == Init /\ [][Next]_vars

\* ------------------------------------------------- the pipeline, run twice
\* The caller runs main again on the same contestants.csv and
\* project_config.json: everything is computed afresh, the seed is the same.
Rerun ==
    /\ pc = "done"
    /\ run = 1
    /\ run' = 2
    /\ prev' = Some([result |-> result, unassigned |-> unassigned, teams |-> teams])
    /\ pc' = "idle"
    /\ data' = EmptyTable
    /\ features' = EmptyTable
    /\ num_groups' = 0
    /\ team_size' = 0
    /\ teams' = <<>>
    /\ cluster' = 0
    /\ unassigned' = <<>>
    /\ i' = 0
    /\ result' = EmptyTable
    /\ UNCHANGED <<raw, config, fit, scoreVars, outputVars, found>>

NextRerun == Next \/ Rerun

\* The configs of the two-run comparison: num_teams = 0 runs as num_teams = 1
\* (line 111), and one pair of requirement lists is tried besides the empty
\* config.
RerunConfigs ==
    {c \in Configs :
        c = EmptyConfig
        \/ (c.num_teams >= 1 /\ c.required_skills = <<"python", "design">>)}

InitRerun ==
    /\ raw \in Cohorts
    /\ config \in RerunConfigs
    /\ Idle

SpecRerun == InitRerun /\ [][NextRerun]_vars

\* ------------------------------------- the validation run of 12 contestants
InitSynthetic ==
    /\ raw = SyntheticCohort
    /\ config = SyntheticConfig
    /\ Idle

ClusterSynthetic == ClusterUsing(BlockFits)

NextSynthetic ==
    \/ Preprocess
    \/ ClusterSynthetic
    \/ Optimize
    \/ Collect
    \/ AssignRemaining
    \/ AssignGroupNumbers
    \/ Return

SpecSynthetic == InitSynthetic /\ [][NextSynthetic]_vars

\* ------------------------------------ compute_weighted_score, called alone
\* The tables compute_weighted_score is called on: the function reads only
\* the rows of the team, in the team's order, so the rows of a table are
\* listed profile by profile and the team ranges over every ordered choice.
ScoreCohorts ==
    {table \in Cohorts :
        \A p \in DOMAIN table : \A q \in DOMAIN table :
            p < q => PersonalityRank(table[p].PersonalityTrait)
                        <= PersonalityRank(table[q].PersonalityTrait)}

InitScore ==
    /\ raw \in ScoreCohorts
    /\ config \in Wanted \cup {EmptyConfig}
    /\ pc = "score_call"
    /\ data = preprocess_data(raw)
    /\ team \in TeamsOf(raw)
    /\ score = None
    /\ prev_score = None
    /\ components = None
    /\ feedback_file = None
    /\ output_file = None
    /\ found = EmptyTable
    /\ features = EmptyTable
    /\ fit = None
    /\ num_groups = 0
    /\ team_size = 0
    /\ teams = <<>>
    /\ cluster = 0
    /\ unassigned = <<>>
    /\ i = 0
    /\ result = EmptyTable
    /\ run = 1
    /\ prev = None

ScoreCall ==
    /\ pc = "score_call"
    /\ score' = Some(compute_weighted_score(team, config, data))
    /\ pc' = "score_returned"
    /\ components' = Some(ScoreComponents(team, config, data))
    /\ UNCHANGED <<raw, config, pipelineVars, rerunVars, team, prev_score, outputVars, found>>

\* the caller passes the same members in another order
Reorder ==
    /\ pc = "score_returned"
    /\ prev_score = None
    /\ \E other \in Orderings(team) \ {team} : team' = other
    /\ prev_score' = score
    /\ pc' = "score_call"
    /\ UNCHANGED <<raw, config, pipelineVars, rerunVars, score, components, outputVars, found>>

NextScore == ScoreCall \/ Reorder

SpecScore == InitScore /\ [][NextScore]_vars

\* ------------------------------------------------- main, run to its end
\* The configs of the runs followed to the end of main: every num_teams and
\* team_size, with one pair of requirement lists, and the empty config.
MainConfigs ==
    {c \in Configs : c = EmptyConfig \/ c.required_skills = <<"python", "design">>}

InitMain ==
    /\ raw \in Cohorts
    /\ config \in MainConfigs
    /\ Idle

\* lines 175-181: load_contestant_data or load_project_requirements caught an
\* exception (file missing or unreadable, a required column missing) and
\* returned None, and main returns
LoadFails ==
    /\ pc = "idle"
    /\ pc' = "returned"
    /\ UNCHANGED <<raw, config, pipelineVars, rerunVars, scoreVars, outputVars, found>>

\* data[['Name', 'Group']], line 155
NameAndGroup(table) ==
    [p \in DOMAIN table |-> [Name |-> table[p].Name, Group |-> table[p].Group]]

\* log_feedback, lines 152-158: to_csv writes the file, or raises and the
\* handler prints the error; either way main goes on
LogFeedback ==
    /\ pc = "done"
    /\ \E written \in BOOLEAN :
          feedback_file' = IF written THEN Some(NameAndGroup(result)) ELSE feedback_file
    /\ pc' = "logged"
    /\ UNCHANGED <<raw, config, pipelineVars, rerunVars, scoreVars, output_file, found>>

\* save_data, lines 160-166, likewise
SaveData ==
    /\ pc = "logged"
    /\ \E written \in BOOLEAN :
          output_file' = IF written THEN Some(result) ELSE output_file
    /\ pc' = "saved"
    /\ UNCHANGED <<raw, config, pipelineVars, rerunVars, scoreVars, feedback_file, found>>

NextMain ==
    \/ LoadFails
    \/ Preprocess
    \/ Cluster
    \/ Optimize
    \/ OptimizeRaises
    \/ Collect
    \/ AssignRemaining
    \/ AssignGroupNumbers
    \/ Return
    \/ LogFeedback
    \/ SaveData

SpecMain == InitMain /\ [][NextMain]_vars

\* assign_groups under the configs of MainConfigs: every num_teams and
\* team_size, one pair of requirement lists
SpecGroups == InitMain /\ [][Next]_vars

\* and under the other configs: every num_teams and team_size with the
\* requirement lists that hold repeated, padded and blank entries
RepeatedConfigs ==
    {c \in Configs : c = EmptyConfig \/ c.required_skills # <<"python", "design">>}

InitRepeated ==
    /\ raw \in Cohorts
    /\ config \in RepeatedConfigs
    /\ Idle

SpecRepeated == InitRepeated /\ [][Next]_vars

\* ------------------------------------------------ preprocess_data, alone
\* An empty ExperienceLevel cell of the CSV, which read_csv loads as nan and
\* .map() leaves as nan.
NoLevel == ""

\* the ExperienceLevel cells tried: the three mapped labels, a label the map
\* does not know, a mapped label in another case, and the empty cell
EncodeLevels == {"Beginner", "Intermediate", "Expert", "Guru", "beginner", NoLevel}

\* tables of 1..MaxN rows that differ in their ExperienceLevel cells only
EncodeCohorts ==
    UNION {{[p \in 0..(n - 1) |->
                [Name |-> <<"C", p + 1>>, Skills |-> Str(<<"python", " ml">>),
                 Interests |-> Str(<<"ai">>), ExperienceLevel |-> levels[p],
                 PersonalityTrait |-> "Leader"]] :
               levels \in [0..(n - 1) -> EncodeLevels]} : n \in 1..MaxN}

InitEncode ==
    /\ raw \in EncodeCohorts
    /\ config = EmptyConfig
    /\ Idle

NextEncode == Preprocess

SpecEncode == InitEncode /\ [][NextEncode]_vars

\* ------------------------------------------------------------------- claims
N == Cardinality(DOMAIN raw)

\* clamp(x, lo, hi) as the specification writes it
Clamp(x, lo, hi) == IF x < lo THEN lo ELSE IF x > hi THEN hi ELSE x

Requested == Get(config, "num_teams", DefaultNumTeams)

\* how many times p occurs in a list
Occurrences(list, p) == Cardinality({j \in 1..Len(list) : list[j] = p})

GroupSize(g) == Cardinality({p \in DOMAIN result : result[p].Group = g})

\* C1: when assign_groups has returned, every row carries exactly one Group
\* value: no Group cell is missing, the value is the number of a team, and
\* the row is a member of that team and of no other, once.
C1_ExactlyOneGroup ==
    pc = "done" =>
        /\ DOMAIN result = DOMAIN raw
        /\ \A p \in DOMAIN raw : data[p].Group # NaN
        /\ \A p \in DOMAIN raw :
              /\ Occurrences(Flatten(teams), p) = 1
              /\ result[p].Group \in 1..Len(teams)
              /\ p \in Range(teams[result[p].Group])

C1_Witness ==
    /\ pc = "done"
    /\ team_size >= 1
    /\ N >= 3
    /\ num_groups >= 2
    /\ Len(unassigned) >= 1

\* C2: the number of distinct Group values of the returned table is
\* clamp(num_teams, 1, cohort size).
C2_GroupCountIsClamp ==
    (pc = "done" /\ team_size >= 1) =>
        Cardinality({result[p].Group : p \in DOMAIN result}) = Clamp(Requested, 1, N)

\* C3: compute_weighted_score returns a value in [0,1], for every team
\* (empty and one-member teams too) and every requirement (empty lists and
\* lists with repeated entries too).
C3_ScoreInUnitInterval ==
    pc = "score_returned" => (score[1] >= 0 /\ score[1] <= ScoreDen * Scale)

C3_Witness ==
    /\ pc = "score_returned"
    /\ Len(team) >= 2
    /\ "required_skills" \in DOMAIN config
    /\ Len(StripNonEmpty(config.required_skills))
          > Cardinality(Range(StripNonEmpty(config.required_skills)))
    /\ 2 * score[1] > ScoreDen * Scale

C6_WithinLeftoverRemainder ==
    (pc = "done" /\ team_size >= 1) =>
        \A g \in 1..Len(teams) :
            /\ Len(teams[g]) - team_size <= Len(unassigned) % num_groups
            /\ team_size - Len(teams[g]) <= Len(unassigned) % num_groups

\* C6, amended: after overflow assignment every group holds the team chosen
\* from its cluster, of min(team_size, cluster size) members, and floor(L/k)
\* or ceil(L/k) of the L leftovers, k the number of teams; so it exceeds
\* team_size by at most ceil(L/k) and is smaller than team_size only when
\* its cluster had fewer than team_size members.
C6_ChosenPlusShare ==
    (pc \in {"merged", "done"} /\ team_size >= 1) =>
        \A g \in 1..Len(teams) :
            LET members == Len(ClusterIndices(data, g - 1))
                share == Len(teams[g]) - Min(team_size, members)
                L == Len(unassigned)
            IN  /\ share \in {L \div num_groups, (L + num_groups - 1) \div num_groups}
                /\ Len(teams[g]) - team_size <= (L + num_groups - 1) \div num_groups
                /\ (Len(teams[g]) < team_size => members < team_size)

C6_Witness ==
    /\ pc = "done"
    /\ team_size >= 1
    /\ num_groups >= 2
    /\ Len(unassigned) >= 2
    /\ Len(unassigned) % num_groups = 0
    /\ \E g \in 1..Len(teams) : Len(teams[g]) > team_size

\* C7: for the 12 contestants of the validation run, with num_teams = 3 and
\* team_size = 4, whatever the fit, the Group values are exactly 1, 2, 3 and
\* every group has 3, 4 or 5 members.
C7_SyntheticBalanced ==
    pc = "done" =>
        /\ {result[p].Group : p \in DOMAIN result} = {1, 2, 3}
        /\ \A g \in {1, 2, 3} : GroupSize(g) \in 3..5

\* C8: the number of clusters is clamp(num_teams, 1, cohort size); the run
\* stops short of assign_groups returning only for a negative team_size
\* (KMeans has a fit to return, one team is made per cluster, line 138 never
\* divides by zero), and when it returns every row is assigned.
C8_ClampedAndCompletes ==
    /\ (pc \notin {"idle", "encoded"} => num_groups = Clamp(Requested, 1, N))
    /\ (pc = "encoded" => KMeansFits(features, NumGroups(config, N)) # {})
    /\ (pc \in {"clustered", "optimized"} => cluster = Len(teams) /\ cluster <= num_groups)
    /\ (pc = "overflow" => Len(teams) = num_groups /\ Len(teams) >= 1 /\ i <= Len(unassigned))
    /\ (pc = "crashed" => team_size < 0)
    /\ (pc = "done" => \A p \in DOMAIN raw : data[p].Group # NaN)

C8_Witness ==
    /\ pc = "done"
    /\ N >= 2
    /\ Requested > N
    /\ num_groups = N

\* C9: the team kept for a cluster has min(team_size, cluster size) distinct
\* members, all of that cluster, and no set of that many members of the
\* cluster scores higher.
C9_ArgmaxPerCluster ==
    pc = "optimized" =>
        \A c \in 1..Len(teams) :
            LET members == Range(ClusterIndices(data, c - 1))
                kept == teams[c]
            IN  /\ Len(kept) = Min(team_size, Cardinality(members))
                /\ Cardinality(Range(kept)) = Len(kept)
                /\ Range(kept) \subseteq members
                /\ \A S \in SUBSET members :
                      Cardinality(S) = Len(kept) =>
                          compute_weighted_score(kept, config, data)
                              >= compute_weighted_score(Ascending(S), config, data)

C9_Witness ==
    /\ pc = "optimized"
    /\ team_size >= 2
    /\ \E c \in 1..Len(teams) :
          LET indices == ClusterIndices(data, c - 1)
          IN  /\ Len(indices) > team_size
              /\ teams[c] # SubSeq(indices, 1, team_size)
              /\ compute_weighted_score(teams[c], config, data)
                    > compute_weighted_score(SubSeq(indices, 1, team_size), config, data)

\* C11: assign_groups never returns for a requirement whose team_size is 0
\* or negative.
C11_NonPositiveRejected ==
    pc = "done" => Get(config, "team_size", DefaultTeamSize) >= 1

\* C12: when main has ended, by returning or by an uncaught exception, it
\* has written both the grouped table and the feedback table, or neither.
C12_BothOrNeither ==
    pc \in {"saved", "returned", "crashed"} =>
        (feedback_file = None <=> output_file = None)

\* the steps from one phase to the next that the specification lists, with
\* the overflow assignment between Optimized and Merged, and the stop of a
\* run whose first call of combinations raises
PhaseSteps ==
    { <<"idle", "encoded">>, <<"encoded", "clustered">>,
      <<"clustered", "optimized">>, <<"optimized", "overflow">>,
      <<"overflow", "merged">>, <<"merged", "done">>,
      <<"clustered", "crashed">> }

\* C13: a run changes phase only along Idle -> Encoded -> Clustered ->
\* Optimized -> (overflow assignment) -> Merged -> Done; Optimized is entered
\* once per cluster, in cluster order; overflow assignment starts only when
\* every cluster has its team, and adds no team.
C13_PhaseOrder ==
    [][ /\ (pc' # pc => <<pc, pc'>> \in PhaseSteps)
        /\ (pc' = "optimized" =>
               /\ cluster' = cluster + 1
               /\ cluster' <= num_groups
               /\ Len(teams') = cluster')
        /\ (pc' = "overflow" =>
               /\ cluster' = num_groups
               /\ Len(teams') = num_groups)
        /\ (pc = "overflow" /\ pc' = "overflow" => i' = i + 1)
      ]_vars

C13_Witness ==
    /\ pc = "done"
    /\ num_groups = MaxTeams
    /\ Len(unassigned) >= 1

\* C14: when assign_groups has returned, the frame it was passed holds what
\* it held when it was passed, which is what preprocess_data returned.
C14_InputsUnchanged ==
    pc = "done" => data = preprocess_data(raw)

\* C15: when main has written both files, every Group value of the grouped
\* table is an integer in 1..k, k the number of teams; group g is exactly the
\* g-th team; and the feedback table has one row per contestant, with the
\* contestant's name and the Group value of the grouped table.
C15_GroupsAndFeedback ==
    (pc = "saved" /\ output_file # None /\ feedback_file # None) =>
        LET grouped == output_file[1]
            feedback == feedback_file[1]
        IN  /\ Len(teams) = num_groups
            /\ DOMAIN grouped = DOMAIN raw
            /\ \A p \in DOMAIN raw : grouped[p].Group \in 1..num_groups
            /\ \A g \in 1..num_groups :
                  {p \in DOMAIN raw : grouped[p].Group = g} = Range(teams[g])
            /\ DOMAIN feedback = DOMAIN raw
            /\ \A p \in DOMAIN raw :
                  /\ DOMAIN feedback[p] = {"Name", "Group"}
                  /\ feedback[p].Name = raw[p].Name
                  /\ feedback[p].Group = grouped[p].Group

C15_Witness ==
    /\ pc = "saved"
    /\ output_file # None
    /\ feedback_file # None
    /\ N >= 3
    /\ num_groups >= 2
    /\ Len(unassigned) >= 1
    /\ \E p \in DOMAIN raw : output_file[1][p].Group = num_groups

\* what the members of the scored team have between them in a list column
TeamHas(column) == UNION {Range(data[team[j]][column]) : j \in 1..Len(team)}

\* |wanted /\ have| / |wanted| for a set of wanted entries, 0 for none
SetRatio(wanted, have) ==
    IF wanted = {} THEN 0
    ELSE (Scale * Cardinality(wanted \cap have)) \div Cardinality(wanted)

\* C16: skill_match is |required_skills /\ team skills| / |required_skills|
\* and interest_match the same for preferred_interests; each is 0 for an empty
\* requirement list and 1 when the team covers every entry of the list.
C16_MatchRatios ==
    pc = "score_returned" =>
        LET required == Range(StripNonEmpty(Get(config, "required_skills", <<>>)))
            preferred == Range(StripNonEmpty(Get(config, "preferred_interests", <<>>)))
        IN  /\ components[1].skill_match = SetRatio(required, TeamHas("Skills"))
            /\ components[1].interest_match = SetRatio(preferred, TeamHas("Interests"))
            /\ (required # {} /\ required \subseteq TeamHas("Skills")
                   => components[1].skill_match = Scale)
            /\ (preferred # {} /\ preferred \subseteq TeamHas("Interests")
                   => components[1].interest_match = Scale)

\* the experience levels of the scored team, in the team's order
TeamLevels == [j \in 1..Len(team) |-> data[team[j]].ExperienceLevel]

\* C17: for a team of n >= 2 levels of sum s > 0 and sum of squares q, where
\* (stdev/mean)^2 = (n*q - s*s)/(s*s), exp_balance is 1 - stdev/mean cut to
\* [0,1] (on the grid: Scale - exp_balance is the integer square root of
\* Scale^2 * (stdev/mean)^2, and 0 once stdev >= mean); it is exactly 1 when
\* all levels are equal, and exactly 0 for a team of 0 or 1 and for levels of
\* mean 0.
C17_ExperienceBalance ==
    /\ \A m \in 0..MaxN : ExpBalance([j \in 1..m |-> 0]) = 0
    /\ pc = "score_returned" =>
          LET n == Len(team)
              s == SumSeq(TeamLevels)
              q == SumSeq([j \in 1..n |-> TeamLevels[j] * TeamLevels[j]])
              b == components[1].exp_balance
              r == Scale - b
              X == Scale * Scale * (n * q - s * s)
          IN  /\ (n <= 1 => b = 0)
              /\ (n >= 2 /\ s > 0 =>
                     /\ b \in 0..Scale
                     /\ (b = 0 => X >= Scale * Scale * s * s)
                     /\ (b > 0 => r * r * s * s <= X /\ X < (r + 1) * (r + 1) * s * s))
              /\ (n >= 2 /\ (\A j \in 1..n : TeamLevels[j] = TeamLevels[1]) => b = Scale)

C17_Witness ==
    /\ pc = "score_returned"
    /\ Len(team) >= 3
    /\ components[1].exp_balance \in 1..(Scale - 1)
    /\ \E j \in 1..Len(team) : TeamLevels[j] = Beginner
    /\ \E j \in 1..Len(team) : TeamLevels[j] = Expert

\* C18: the score is 0.4*skill_match + 0.3*interest_match + 0.2*exp_balance
\* + 0.1*personality_diversity (in tenths: 4, 3, 2, 1, which sum to 10), and
\* personality_diversity is the number of distinct personality labels of the
\* team over the team's size, 0 for an empty team.
C18_WeightedSum ==
    /\ skill_weight + interest_weight + exp_weight + personality_weight = ScoreDen
    /\ pc = "score_returned" =>
          LET terms == components[1]
              labels == {data[team[j]].PersonalityTrait : j \in 1..Len(team)}
          IN  /\ 10 * score[1] = ScoreDen * (4 * terms.skill_match + 3 * terms.interest_match
                                             + 2 * terms.exp_balance
                                             + 1 * terms.personality_diversity)
              /\ terms.personality_diversity =
                    IF team = <<>> THEN 0
                    ELSE (Scale * Cardinality(labels)) \div Len(team)

C18_Witness ==
    /\ pc = "score_returned"
    /\ components[1].skill_match > components[1].interest_match
    /\ components[1].interest_match > 0
    /\ components[1].exp_balance \in 1..(Scale - 1)
    /\ components[1].personality_diversity \in 1..(Scale - 1)

\* C19: preprocess_data encodes Beginner as 1, Intermediate as 2, Expert as
\* 3, and an empty or any other ExperienceLevel cell as 2; the encoded value
\* is always 1, 2 or 3.
C19_ExperienceEncoding ==
    pc = "encoded" =>
        \A p \in DOMAIN raw :
            LET level == raw[p].ExperienceLevel
                encoded == data[p].ExperienceLevel
            IN  /\ encoded \in {1, 2, 3}
                /\ (level = "Beginner" => encoded = 1)
                /\ (level = "Intermediate" => encoded = 2)
                /\ (level = "Expert" => encoded = 3)
                /\ (level \notin {"Beginner", "Intermediate", "Expert"} => encoded = 2)

C19_Witness ==
    /\ pc = "encoded"
    /\ \E p \in DOMAIN raw : raw[p].ExperienceLevel = NoLevel
    /\ \E p \in DOMAIN raw : raw[p].ExperienceLevel = "Guru"
    /\ \E p \in DOMAIN raw : raw[p].ExperienceLevel = "Expert"
    /\ \E p \in DOMAIN raw : raw[p].ExperienceLevel = "Beginner"

\* C20: a table with a Skills or Interests cell that is not a string is not
\* encoded: the run does not get past preprocess_data.
C20_UnparsableRejected ==
    (\E p \in DOMAIN raw : ~raw[p].Skills.isstr \/ ~raw[p].Interests.isstr) =>
        pc = "idle"

\* a comes before b in lexicographic order, for lists of equal length
LexBefore(a, b) ==
    \E j \in 1..Len(a) : a[j] < b[j] /\ \A h \in 1..(j - 1) : a[h] = b[h]

\* the rows labelled with cluster c (0-based)
Members(c) == {p \in DOMAIN data : data[p].InitialCluster = c}

\* C21: among the combinations of a cluster that attain the maximal score
\* the kept team is the first in enumeration order: every combination of the
\* cluster's rows that comes before it, in lexicographic order of row
\* indices, scores strictly less.
C21_FirstOfTheBest ==
    pc = "optimized" =>
        \A c \in 1..Len(teams) :
            \A S \in SUBSET Members(c - 1) :
                (Cardinality(S) = Len(teams[c]) /\ LexBefore(Ascending(S), teams[c])) =>
                    compute_weighted_score(Ascending(S), config, data)
                        < compute_weighted_score(teams[c], config, data)

C21_Witness ==
    /\ pc = "optimized"
    /\ team_size >= 1
    /\ \E c \in 1..Len(teams) :
          \E S, T \in SUBSET Members(c - 1) :
              /\ Cardinality(S) = Len(teams[c])
              /\ LexBefore(teams[c], Ascending(S))
              /\ compute_weighted_score(Ascending(S), config, data)
                    = compute_weighted_score(teams[c], config, data)
              /\ Cardinality(T) = Len(teams[c])
              /\ LexBefore(Ascending(T), teams[c])

\* the positions (1-based) in the leftover list whose 0-based index is g - 1
\* modulo the number of teams, in order
Turns(g) ==
    Ascending({j \in 1..Len(unassigned) : (j - 1) % Len(teams) = g - 1})

\* the members a team had before the leftovers were dealt
Chosen(g) == SubSeq(teams[g], 1, Len(teams[g]) - Len(Turns(g)))

\* C22: when the leftovers have been dealt, team g ends with the leftovers
\* of 0-based index g - 1 modulo the number of teams, in leftover order,
\* appended after the members the optimizer chose; and the leftovers are,
\* once each, exactly the rows in no chosen team.
C22_RoundRobin ==
    pc \in {"merged", "done"} =>
        /\ \A g \in 1..Len(teams) :
              /\ Len(teams[g]) >= Len(Turns(g))
              /\ \A t \in 1..Len(Turns(g)) :
                    teams[g][Len(Chosen(g)) + t] = unassigned[Turns(g)[t]]
        /\ Cardinality(Range(unassigned)) = Len(unassigned)
        /\ Range(unassigned)
              = DOMAIN raw \ UNION {Range(Chosen(g)) : g \in 1..Len(teams)}

C22_Witness ==
    /\ pc = "merged"
    /\ Len(teams) >= 2
    /\ Len(unassigned) > Len(teams)
    /\ \E g \in 1..Len(teams) : Chosen(g) # <<>>

\* C23: a step never removes a team, and never removes or moves a member of
\* a team: each team is a prefix of what it is after the step; and once the
\* group numbers are written the teams do not change at all.
C23_TeamsOnlyGrow ==
    [][ /\ Len(teams') >= Len(teams)
        /\ \A g \in 1..Len(teams) :
              /\ Len(teams'[g]) >= Len(teams[g])
              /\ SubSeq(teams'[g], 1, Len(teams[g])) = teams[g]
        /\ (pc \in {"merged", "done", "logged", "saved"} => teams' = teams)
      ]_vars

C23_Witness ==
    /\ pc = "saved"
    /\ Len(teams) >= 2
    /\ \E g \in 1..Len(teams) : Len(Chosen(g)) >= 2 /\ Len(Turns(g)) >= 1

\* ---------------------------------------------------------------------------
\* The searches of lines 120-132 run apart from one another. One pass of the
\* loop reads data, project_requirements, team_size and its own cluster, and
\* sets best_team and best_score anew (lines 122-123) before it looks at a
\* combination; what it hands on is the one list it appends at line 132. Here
\* a search of any cluster may start at any time, any started search may
\* finish at any time, and the lists are put in cluster order at the end.

Searching == <<"searching">>

\* the best of the searches that have finished, which a search would start
\* from if best_team and best_score were set once before the loop of line 120
BestSoFar(done) ==
    IF done = {} THEN <<<<>>, 0 - ScoreDen * Scale>>
    ELSE LET top == CHOOSE c \in done : \A d \in done :
                        \/ compute_weighted_score(found[d][1], config, data)
                             < compute_weighted_score(found[c][1], config, data)
                        \/ /\ compute_weighted_score(found[d][1], config, data)
                                = compute_weighted_score(found[c][1], config, data)
                           /\ c <= d
         IN  <<found[top][1], compute_weighted_score(found[top][1], config, data)>>

\* lines 121-125 of one search: its cluster's rows, and the size it asks for
StartSearch(c) ==
    /\ pc = "clustered"
    /\ c \in 0..(num_groups - 1)
    /\ c \notin DOMAIN found
    /\ Min(team_size, Len(ClusterIndices(data, c))) >= 0
    /\ found' = [d \in DOMAIN found \cup {c} |-> IF d = c THEN Searching ELSE found[d]]
    /\ UNCHANGED <<pc, raw, config, pipelineVars, rerunVars, scoreVars, outputVars>>

\* EndSearch with best_team and best_score carried over from the searches
\* that finished before it
EndSearchCarried(c) ==
    /\ pc = "clustered"
    /\ c \in DOMAIN found
    /\ found[c] = Searching
    /\ LET cluster_indices == ClusterIndices(data, c)
           combos == Combinations(cluster_indices, Min(team_size, Len(cluster_indices)))
           done == {d \in DOMAIN found : found[d] # Searching}
       IN  found' = [found EXCEPT ![c] =
                        Some(LoopOver(combos, 1, Len(combos), BestSoFar(done), config, data)[1])]
    /\ UNCHANGED <<pc, raw, config, pipelineVars, rerunVars, scoreVars, outputVars>>

\* lines 122-132 of one search: the loop over its combinations, and the list
\* it hands on
EndSearch(c) ==
    /\ pc = "clustered"
    /\ c \in DOMAIN found
    /\ found[c] = Searching
    /\ LET cluster_indices == ClusterIndices(data, c)
       IN  found' = [found EXCEPT ![c] =
                        Some(BestTeam(cluster_indices, Min(team_size, Len(cluster_indices)),
                                      config, data))]
    /\ UNCHANGED <<pc, raw, config, pipelineVars, rerunVars, scoreVars, outputVars>>

\* every search has finished: teams is their lists in cluster order
Gather ==
    /\ pc = "clustered"
    /\ DOMAIN found = 0..(num_groups - 1)
    /\ \A c \in DOMAIN found : found[c] # Searching
    /\ teams' = [g \in 1..num_groups |-> found[g - 1][1]]
    /\ cluster' = num_groups
    /\ pc' = "optimized"
    /\ UNCHANGED <<raw, config, data, features, fit, num_groups, team_size,
                   unassigned, i, result, rerunVars, scoreVars, outputVars, found>>

\* the configs that ask for two teams or more, of one row or more: those
\* under which two searches can overlap and have combinations to compare
ParallelConfigs ==
    {c \in MainConfigs : /\ Get(c, "num_teams", DefaultNumTeams) >= 2
                         /\ Get(c, "team_size", DefaultTeamSize) >= 1}

\* the tables are those of ScoreCohorts, rows listed profile by profile
InitParallel ==
    /\ raw \in ScoreCohorts
    /\ config \in ParallelConfigs
    /\ Idle

NextParallel ==
    \/ Preprocess
    \/ Cluster
    \/ \E c \in 0..(MaxTeams - 1) : StartSearch(c)
    \/ \E c \in 0..(MaxTeams - 1) : EndSearch(c)
    \/ Gather

SpecParallel == InitParallel /\ [][NextParallel]_vars

\* the list the loop of lines 120-132 builds when it takes the clusters one
\* after the other, from 0 up
RECURSIVE SequentialTeams(_)
SequentialTeams(k) ==
    IF k = 0 THEN <<>>
    ELSE LET cluster_indices == ClusterIndices(data, k - 1)
         IN  Append(SequentialTeams(k - 1),
                    BestTeam(cluster_indices, Min(team_size, Len(cluster_indices)),
                             config, data))

C25_ChosenDisjoint ==
    (pc \in {"clustered", "optimized", "overflow"} /\ i = 0) =>
        /\ \A c \in 1..Len(teams) :
              /\ Range(teams[c]) \subseteq Members(c - 1)
              /\ Cardinality(Range(teams[c])) = Len(teams[c])
        /\ \A c, d \in 1..Len(teams) :
              c # d => Range(teams[c]) \cap Range(teams[d]) = {}

\* every cluster has its chosen team, one of them of two rows, and a row is
\* left over besides
C25_Witness ==
    /\ pc = "optimized"
    /\ cluster = num_groups
    /\ Len(teams) >= 2
    /\ \A c \in 1..Len(teams) : teams[c] # <<>>
    /\ \E c \in 1..Len(teams) : Len(teams[c]) >= 2
    /\ \E c \in 1..Len(teams) : Cardinality(Members(c - 1)) > Len(teams[c])

\* ceil(a / b) for b > 0 and a > -b
CeilDiv(a, b) == (a + b - 1) \div b

\* the size of the team the search of lines 120-132 chose for team g
ChosenSize(g) == Min(team_size, Cardinality(Members(g - 1)))

\* C26: with L leftovers and k teams, team j (counted from 0) has received
\* ceil((L - j) / k) leftovers when the round robin is over, so two teams
\* differ by at most one leftover; the final size of group j is
\* min(team_size, |cluster j|) + ceil((L - j) / k), and the sizes add up to
\* the size of the cohort
C26_RoundRobinBalance ==
    pc \in {"merged", "done"} =>
        LET k == Len(teams)
            L == Len(unassigned)
            received == [g \in 1..k |-> Len(teams[g]) - ChosenSize(g)]
        IN  /\ \A g \in 1..k : received[g] = CeilDiv(L - (g - 1), k)
            /\ \A g, h \in 1..k : received[g] - received[h] \in {0 - 1, 0, 1}
            /\ \A g \in 1..k :
                  Len(teams[g]) = ChosenSize(g) + CeilDiv(L - (g - 1), k)
            /\ pc = "done" => \A g \in 1..k : GroupSize(g) = Len(teams[g])
            /\ SumSeq([g \in 1..k |-> Len(teams[g])]) = N

\* a round robin that does not come out even, after a search that chose a
\* team: one team has received a leftover more than another
C26_Witness ==
    /\ pc = "done"
    /\ Len(teams) >= 2
    /\ Len(unassigned) % Len(teams) # 0
    /\ \E g \in 1..Len(teams) : ChosenSize(g) >= 1
    /\ \E g, h \in 1..Len(teams) :
          Len(teams[g]) - ChosenSize(g) = (Len(teams[h]) - ChosenSize(h)) + 1

\* some cluster has more rows than a team may take from it
SomeClusterOverfull == \E c \in 0..(num_groups - 1) : Cardinality(Members(c)) > team_size

\* C27: rows are left over exactly when some cluster has more than team_size
\* members; when no cluster has, the list of leftovers is empty and the final
\* groups are the clusters, group g being cluster g - 1
C27_LeftoversIffOverfull ==
    pc \in {"overflow", "merged", "done"} =>
        /\ unassigned # <<>> <=> SomeClusterOverfull
        /\ ~SomeClusterOverfull =>
              /\ unassigned = <<>>
              /\ Len(teams) = num_groups
              /\ \A g \in 1..Len(teams) :
                    /\ Range(teams[g]) = Members(g - 1)
                    /\ Len(teams[g]) = Cardinality(Members(g - 1))
              /\ pc = "done" =>
                    \A p \in DOMAIN result : result[p].Group = data[p].InitialCluster + 1

\* a run that ends with two or more groups that are its clusters, a cluster
\* of two rows among them
C27_Witness ==
    /\ pc = "done"
    /\ ~SomeClusterOverfull
    /\ num_groups >= 2
    /\ team_size >= 1
    /\ \E c \in 0..(num_groups - 1) : Cardinality(Members(c)) = 2
    /\ \E p, q \in DOMAIN result : result[p].Group # result[q].Group

\* C28: with team_size >= 1 the search of a non-empty cluster ends with a
\* non-empty team (the first combination scores 0 or more and beats the -1
\* best_score starts at), the search of an empty cluster ends with the empty
\* team, and neither raises; so a final group is empty only if its cluster was
\* empty and the round robin gave it no leftover
C28_NonEmptyClusterNonEmptyTeam ==
    (team_size >= 1 /\ pc # "idle" /\ pc # "encoded") =>
        /\ pc # "crashed"
        /\ (pc \in {"optimized", "overflow"} /\ i = 0) =>
              \A c \in 1..Len(teams) :
                 /\ Members(c - 1) # {} =>
                       /\ teams[c] # <<>>
                       /\ compute_weighted_score(teams[c], config, data) >= 0
                 /\ Members(c - 1) = {} => teams[c] = <<>>
        /\ pc = "done" =>
              \A g \in 1..Len(teams) :
                 GroupSize(g) = 0 => (Members(g - 1) = {} /\ Turns(g) = <<>>)

\* a run with team_size >= 1 that ends with an empty group although rows were
\* left over: its cluster was empty and the round robin ended before its turn
C28_Witness ==
    /\ pc = "done"
    /\ team_size >= 1
    /\ unassigned # <<>>
    /\ \E g \in 1..Len(teams) : GroupSize(g) = 0 /\ Members(g - 1) = {}
    /\ \E g \in 1..Len(teams) : Len(Chosen(g)) >= 2

\* C29: the frame assign_groups returns has no InitialCluster column; in it a
\* row the search chose carries the number of its cluster's team, cluster + 1,
\* and a leftover row carries the number its place in the list of leftovers
\* gives it, whatever cluster it came from
C29_ClusterLabelsDropped ==
    pc = "done" =>
        /\ \A p \in DOMAIN result : "InitialCluster" \notin DOMAIN result[p]
        /\ \A p \in DOMAIN result : "Group" \in DOMAIN result[p]
        /\ \A g \in 1..Len(teams) : \A p \in Range(Chosen(g)) :
              result[p].Group = data[p].InitialCluster + 1
        /\ \A j \in 1..Len(unassigned) :
              result[unassigned[j]].Group = ((j - 1) % Len(teams)) + 1

\* a returned frame in which a leftover row is in the group of another
\* cluster than its own, and two rows of one cluster are in different groups
C29_Witness ==
    /\ pc = "done"
    /\ \E j \in 1..Len(unassigned) :
          result[unassigned[j]].Group # data[unassigned[j]].InitialCluster + 1
    /\ \E p, q \in DOMAIN result :
          /\ data[p].InitialCluster = data[q].InitialCluster
          /\ result[p].Group # result[q].Group
    /\ \E g \in 1..Len(teams) : Chosen(g) # <<>>

\* ---------------------------------------------------------------------------
\* normalize_list_field on its own: one-row tables whose Skills cell is any
\* str of 1..MaxPieces pieces, any list of 0..MaxPieces tokens, or empty

\* what stands between two commas of a cell: a word, a word with whitespace
\* around it, whitespace alone, nothing
Pieces == {"python", " ml", "python ", " ai ", " ", ""}

\* a token of a list may hold a comma as well
ListTokens == Pieces \cup {"ml,ai"}

SeqsOver(S, lo, hi) == UNION {[1..n -> S] : n \in lo..hi}

NormalizeCells ==
    {Str(pieces) : pieces \in SeqsOver(Pieces, 1, MaxPieces)}
    \cup {List(tokens) : tokens \in SeqsOver(ListTokens, 0, MaxPieces)}
    \cup {NaNCell}

NormalizeCohorts ==
    {[p \in {0} |->
         [Name |-> <<"C", 1>>, Skills |-> cell, Interests |-> Str(<<" ai ", "", "web">>),
          ExperienceLevel |-> "Expert", PersonalityTrait |-> "Leader"]] :
        cell \in NormalizeCells}

InitNormalize ==
    /\ raw \in NormalizeCohorts
    /\ config = EmptyConfig
    /\ Idle

\* normalize_list_field applied to the lists it returned
NormalizeAgain ==
    /\ pc = "encoded"
    /\ data' = [p \in DOMAIN data |->
                   [data[p] EXCEPT !.Skills = normalize_list_field(List(@)),
                                   !.Interests = normalize_list_field(List(@))]]
    /\ pc' = "renormalized"
    /\ UNCHANGED <<raw, config, features, fit, num_groups, team_size, teams, cluster,
                   unassigned, i, result, rerunVars, scoreVars, outputVars, found>>

NextNormalize == Preprocess \/ NormalizeAgain

SpecNormalize == InitNormalize /\ [][NextNormalize]_vars

\* the pieces that are whitespace or nothing, and those with whitespace around
\* a word
BlankPieces == {" ", ""}
PaddedPieces == {" ml", "python ", " ai ", " web"}

\* C30: normalize_list_field returns, for a str or a list, one token for each
\* piece that is not blank, in order, the pieces that need no stripping as
\* they are; no token it returns is empty or has whitespace around it; and
\* applied to a list it returned it returns the same list
C30_NormalizeIdempotent ==
    /\ pc \in {"encoded", "renormalized"} =>
          \A p \in DOMAIN raw :
             LET value == raw[p].Skills
                 out == data[p].Skills
                 kept == {j \in 1..Len(value.pieces) : value.pieces[j] \notin BlankPieces}
             IN  /\ Range(out) \cap (BlankPieces \cup PaddedPieces) = {}
                 /\ Range(data[p].Interests) \cap (BlankPieces \cup PaddedPieces) = {}
                 /\ Len(out) = Cardinality(kept)
                 /\ \A j \in kept :
                       value.pieces[j] \notin PaddedPieces =>
                          out[Cardinality({h \in kept : h <= j})] = value.pieces[j]
                 /\ normalize_list_field(List(out)) = out
    /\ pc = "renormalized" => data = preprocess_data(raw)

\* a cell with a padded piece, a blank piece and a clean one, normalised twice
C30_Witness ==
    /\ pc = "renormalized"
    /\ \E p \in DOMAIN raw :
          /\ raw[p].Skills.isstr
          /\ Range(raw[p].Skills.pieces) \cap BlankPieces # {}
          /\ Range(raw[p].Skills.pieces) \cap PaddedPieces # {}
          /\ "python" \in Range(raw[p].Skills.pieces)
          /\ Len(data[p].Skills) = 2

====
